---------------------------- MODULE Spec2Model ----------------------------
(***************************************************************************)
(* The block unlocker of the pool (payouts/unlocker.go): the candidate     *)
(* matcher, the reward arithmetic, the two passes and the periodic loop    *)
(* with its shutdown hook.                                                  *)
(*                                                                          *)
(* Strings are sequences of one-character strings, so that length, case    *)
(* folding and hexadecimal parsing are computed, not assumed.  Amounts of  *)
(* wei are counted in units of 10^8 wei (a tenth of a Shannon): TLC's      *)
(* integers are 32 bits wide and the rounding of the conversion to Shannon *)
(* is decided by the first decimal of the quotient.                         *)
(***************************************************************************)
EXTENDS Integers, Sequences, FiniteSets, TLC

\* ------------------------------------------------------------------ bounds

\* highest block the node of the matcher model holds
MaxHeight == 52

\* timer ticks the worker loop serves in the scheduler model
MaxTicks == 2

\* ------------------------------------------------------- program constants

minDepth == 16

donationFee == 10

\* ----------------------------------------------------------------- strings

Str(s) == [i \in 1..Len(s) |-> s[i]]

\* unicode simple folding, on the letters hexadecimal strings are made of
FoldChar(ch) ==
    CASE ch = "A" -> "a" [] ch = "B" -> "b" [] ch = "C" -> "c"
      [] ch = "D" -> "d" [] ch = "E" -> "e" [] ch = "F" -> "f"
      [] ch = "X" -> "x" [] OTHER -> ch

\* strings.EqualFold
EqualFold(s, t) ==
    /\ Len(s) = Len(t)
    /\ \A i \in 1..Len(s) : FoldChar(s[i]) = FoldChar(t[i])

\* strings.ToLower
ToLower(s) == [i \in 1..Len(s) |-> FoldChar(s[i])]

RECURSIVE StripOx(_)
\* strings.Replace(s, "0x", "", -1): every non-overlapping "0x", left to right
StripOx(s) ==
    IF Len(s) = 0 THEN <<>>
    ELSE IF Len(s) >= 2 /\ s[1] = "0" /\ s[2] = "x" THEN StripOx(SubSeq(s, 3, Len(s)))
    ELSE <<s[1]>> \o StripOx(Tail(s))

HexChars == <<"0", "1", "2", "3", "4", "5", "6", "7", "8", "9", "a", "b", "c", "d", "e", "f">>

IsHexChar(ch) == \E k \in 1..16 : HexChars[k] = FoldChar(ch)

HexVal(ch) == (CHOOSE k \in 1..16 : HexChars[k] = FoldChar(ch)) - 1

RECURSIVE HexNat(_)
HexNat(s) == IF Len(s) = 0 THEN 0 ELSE HexNat(SubSeq(s, 1, Len(s) - 1)) * 16 + HexVal(s[Len(s)])

\* strconv.ParseInt(s, 16, 64): an optional sign, then one or more digits of
\* base 16.  The strings of the model are short, so the range error of 64 bits
\* does not arise.
ParseInt16(s) ==
    LET signed == Len(s) > 0 /\ s[1] \in {"+", "-"}
        digits == IF signed THEN Tail(s) ELSE s
    IN  IF Len(digits) = 0 \/ \E i \in 1..Len(digits) : ~IsHexChar(digits[i])
        THEN [ok |-> FALSE, val |-> 0]
        ELSE [ok |-> TRUE,
              val |-> IF signed /\ s[1] = "-" THEN 0 - HexNat(digits) ELSE HexNat(digits)]

\* strconv.ParseInt(strings.Replace(number, "0x", "", -1), 16, 64)
ParseHexNumber(number) == ParseInt16(StripOx(number))

RECURSIVE HexDigits(_)
HexDigits(n) == IF n < 16 THEN <<HexChars[n + 1]>> ELSE HexDigits(n \div 16) \o <<HexChars[(n % 16) + 1]>>

\* the node's encoding of a quantity: "0x" and the hexadecimal digits
HexNumber(n) == <<"0", "x">> \o HexDigits(n)

\* -------------------------------------------------------------- the node

\* A block or uncle as the node replies it (rpc.GetBlockReply): the fields the
\* unlocker reads.
NoBlock ==
    [Number |-> <<>>, Hash |-> <<>>, Nonce |-> <<>>, SealFields |-> <<>>,
     Uncles |-> <<>>, Transactions |-> <<>>]

Pad4(d) == IF Len(d) >= 4 THEN d ELSE [i \in 1..(4 - Len(d)) |-> "0"] \o d

\* hashes are distinct per block and per uncle, ten characters long, and carry
\* an upper-case letter: the store keeps them as the node gave them
BlockHash(h) == <<"0", "x", "B", "1", "0", "0">> \o Pad4(HexDigits(h))

UncleHash(h, i) == <<"0", "x", "E", HexChars[i + 1], "0", "0">> \o Pad4(HexDigits(h))

TxHash(h, k) == <<"0", "x", "D", HexChars[k + 1], "0", "0">> \o Pad4(HexDigits(h))

\* the nonce of finder "a" or "b", as the pool recorded it (lower case) and as
\* the node replies it (upper case); no other block carries these nonces
PoolNonce(who) == IF who = "a" THEN <<"0", "x", "a", "b">> ELSE <<"0", "x", "c", "d">>

NodeNonce(who) == IF who = "a" THEN <<"0", "x", "A", "B">> ELSE <<"0", "x", "C", "D">>

FillerNonce == <<"0", "x", "0", "0">>

MixDigest == <<"0", "x", "9", "9">>

\* What the node holds at a height, when it is not a plain block that nobody of
\* the pool found.  h: the height; who: whose nonce; kind:
\*   geth      the block carries the nonce in Nonce
\*   parity    the block carries it in SealFields[1], Nonce is empty
\*   sealed3   a block with three seal fields and no Nonce
\*   uncle     the block lists two uncles, the second carries the nonce; the
\*             uncles' own height lies 2 below h
\*   unclefar  the same, the uncles' own height lying 9 below h
\*   tx        a geth block with two transactions, both with a receipt
\*   txnil     a geth block with two transactions, the first without receipt
\*   txerr     a geth block whose receipt fetch fails
\*   badnum    a geth block whose Number does not parse
\*   err, nil  the fetch of the block fails, or replies null
\*   uerr,unil the fetch of the second uncle fails, or replies null
Kinds ==
    {"geth", "parity", "sealed3", "uncle", "unclefar", "tx", "txnil", "txerr",
     "badnum", "err", "nil", "uerr", "unil"}

UncleKinds == {"uncle", "unclefar", "uerr", "unil"}

HasFeat(node, h) == \E f \in node.feats : f.h = h

FeatAt(node, h) == CHOOSE f \in node.feats : f.h = h

PlainBlock(h) ==
    [Number |-> HexNumber(h), Hash |-> BlockHash(h), Nonce |-> FillerNonce,
     SealFields |-> <<>>, Uncles |-> <<>>, Transactions |-> <<>>]

TwoTx(h) ==
    << [Hash |-> TxHash(h, 0), GasPrice |-> HexNumber(2)],
       [Hash |-> TxHash(h, 1), GasPrice |-> HexNumber(3)] >>

BlockOf(f) ==
    LET p == PlainBlock(f.h) IN
    CASE f.kind = "geth" -> [p EXCEPT !.Nonce = NodeNonce(f.who)]
      [] f.kind = "parity" ->
            [p EXCEPT !.Nonce = <<>>, !.SealFields = <<MixDigest, NodeNonce(f.who)>>]
      [] f.kind = "sealed3" ->
            [p EXCEPT !.Nonce = <<>>,
                      !.SealFields = <<MixDigest, NodeNonce(f.who), MixDigest>>]
      [] f.kind \in UncleKinds ->
            [p EXCEPT !.Uncles = <<UncleHash(f.h, 0), UncleHash(f.h, 1)>>]
      [] f.kind \in {"tx", "txnil", "txerr"} ->
            [p EXCEPT !.Nonce = NodeNonce(f.who), !.Transactions = TwoTx(f.h)]
      [] f.kind = "badnum" ->
            [p EXCEPT !.Nonce = NodeNonce(f.who), !.Number = <<"0", "x", "z">>]
      [] OTHER -> p

\* the uncle at index i of the block of feature f
UncleOf(f, i) ==
    LET d == IF f.kind = "unclefar" THEN 9 ELSE 2
        uh == IF f.h >= d THEN f.h - d ELSE 0
    IN
    [Number |-> HexNumber(uh), Hash |-> UncleHash(f.h, i),
     Nonce |-> IF i = 1 THEN NodeNonce(f.who) ELSE FillerNonce,
     SealFields |-> <<>>, Uncles |-> <<>>, Transactions |-> <<>>]

\* rpc.GetBlockByHeight: an error, a null reply (above the node's head), a block
GetBlockByHeight(node, h) ==
    IF h > node.head THEN [st |-> "nil", b |-> NoBlock]
    ELSE IF ~HasFeat(node, h) THEN [st |-> "ok", b |-> PlainBlock(h)]
    ELSE LET f == FeatAt(node, h) IN
         IF f.kind \in {"err", "nil"} THEN [st |-> f.kind, b |-> NoBlock]
         ELSE [st |-> "ok", b |-> BlockOf(f)]

\* rpc.GetUncleByBlockNumberAndIndex
GetUncleByBlockNumberAndIndex(node, h, i) ==
    IF h > node.head \/ ~HasFeat(node, h) THEN [st |-> "nil", b |-> NoBlock]
    ELSE LET f == FeatAt(node, h) IN
         IF f.kind \notin UncleKinds \/ i > 1
         THEN [st |-> "nil", b |-> NoBlock]
         ELSE IF f.kind = "uerr" /\ i = 1 THEN [st |-> "err", b |-> NoBlock]
         ELSE IF f.kind = "unil" /\ i = 1 THEN [st |-> "nil", b |-> NoBlock]
         ELSE [st |-> "ok", b |-> UncleOf(f, i)]

ReceiptOf(f, k) ==
    IF f.kind = "txerr" THEN [st |-> "err", GasUsed |-> <<>>]
    ELSE IF f.kind = "txnil" /\ k = 0 THEN [st |-> "nil", GasUsed |-> <<>>]
    ELSE [st |-> "ok", GasUsed |-> HexNumber(16 + k)]

\* rpc.GetTxReceipt: an error, a null reply, or the receipt of the transaction
GetTxReceipt(node, txHash) ==
    LET hits == {x \in node.feats \X {0, 1} :
                    /\ x[1].kind \in {"tx", "txnil", "txerr"}
                    /\ TxHash(x[1].h, x[2]) = txHash}
    IN  IF hits = {} THEN [st |-> "nil", GasUsed |-> <<>>]
        ELSE LET x == CHOOSE y \in hits : TRUE IN ReceiptOf(x[1], x[2])

\* util.String2Big: the quantity of a hexadecimal string, 0 when it has none
String2Big(s) == LET p == ParseHexNumber(s) IN IF p.ok THEN p.val ELSE 0

\* ------------------------------------------------------------ reward tables

\* types.GetConstReward, in units of 10^8 wei
GetConstReward(height, mainNet) == IF mainNet THEN 320 ELSE 160

\* types.GetRewardForUncle: what a block earns for each uncle it includes
GetRewardForUncle(height, mainNet) == GetConstReward(height, mainNet) \div 32

\* types.GetUncleReward: (8 - k) / 8 of the block reward, k the uncle's distance
GetUncleReward(uHeight, height, mainNet) ==
    ((8 - (height - uHeight)) * GetConstReward(height, mainNet)) \div 8

\* ------------------------------------------------------------- the matcher

\* types.BlockData, the fields the unlocker reads or writes.  ptr is the
\* identity of the object: the result lists hold pointers.  HasExtra is
\* ExtraReward # nil.
NewCandidate(ptr, height, who) ==
    [ptr |-> ptr, RoundHeight |-> height, Height |-> height, Nonce |-> PoolNonce(who),
     Hash |-> <<>>, UncleHeight |-> 0, Orphan |-> FALSE, Reward |-> 0,
     HasExtra |-> FALSE, ExtraReward |-> 0, State |-> 0]

\* matchCandidate
matchCandidate(block, candidate) ==
    IF Len(candidate.Hash) > 0 /\ EqualFold(candidate.Hash, block.Hash) THEN TRUE
    ELSE IF Len(block.Nonce) > 0 THEN EqualFold(block.Nonce, candidate.Nonce)
    ELSE IF Len(block.SealFields) = 2 THEN EqualFold(candidate.Nonce, block.SealFields[2])
    ELSE FALSE

RECURSIVE ExtraFrom(_, _, _)
\* the loop of getExtraRewardForTx from the k-th transaction on (k from 1)
ExtraFrom(node, txs, k) ==
    IF k > Len(txs) THEN [ok |-> TRUE, amount |-> 0]
    ELSE LET receipt == GetTxReceipt(node, txs[k].Hash)
             rest == ExtraFrom(node, txs, k + 1)
         IN  IF receipt.st = "err" THEN [ok |-> FALSE, amount |-> 0]
             ELSE IF ~rest.ok THEN rest
             ELSE IF receipt.st = "nil" THEN rest
             ELSE [ok |-> TRUE,
                   amount |-> String2Big(receipt.GasUsed) * String2Big(txs[k].GasPrice)
                              + rest.amount]

getExtraRewardForTx(node, block) == ExtraFrom(node, block.Transactions, 1)

\* a faulty handleBlock, to test TxFeeRouting against: the fees are added to the
\* reward although they are kept apart
handleBlockMut(node, cfg, block, candidate) ==
    LET parsed == ParseHexNumber(block.Number)
        c1 == [candidate EXCEPT !.Height = parsed.val]
        base == GetConstReward(c1.Height, cfg.mainNet)
        extra == getExtraRewardForTx(node, block)
        c2 == IF cfg.KeepTxFees
              THEN [c1 EXCEPT !.HasExtra = TRUE, !.ExtraReward = extra.amount]
              ELSE c1
        rewardForUncles == GetRewardForUncle(c1.Height, cfg.mainNet) * Len(block.Uncles)
    IN  IF ~parsed.ok THEN [err |-> "parse", c |-> candidate]
        ELSE IF ~extra.ok THEN [err |-> "receipt", c |-> c1]
        ELSE [err |-> "",
              c |-> [c2 EXCEPT !.Orphan = FALSE, !.Hash = block.Hash,
                               !.Reward = base + extra.amount + rewardForUncles]]

\* handleBlock: [err, c]; err is "" when it returns nil.  The candidate keeps
\* what was assigned before a failing step.
handleBlock(node, cfg, block, candidate) ==
    LET parsed == ParseHexNumber(block.Number)
        c1 == [candidate EXCEPT !.Height = parsed.val]
        base == GetConstReward(c1.Height, cfg.mainNet)
        extra == getExtraRewardForTx(node, block)
        c2 == IF cfg.KeepTxFees
              THEN [c1 EXCEPT !.HasExtra = TRUE, !.ExtraReward = extra.amount]
              ELSE c1
        reward1 == IF cfg.KeepTxFees THEN base ELSE base + extra.amount
        rewardForUncles == GetRewardForUncle(c1.Height, cfg.mainNet) * Len(block.Uncles)
    IN  IF ~parsed.ok THEN [err |-> "parse", c |-> candidate]
        ELSE IF ~extra.ok THEN [err |-> "receipt", c |-> c1]
        ELSE [err |-> "",
              c |-> [c2 EXCEPT !.Orphan = FALSE, !.Hash = block.Hash,
                               !.Reward = reward1 + rewardForUncles]]

\* a faulty handleUncle, to test UncleHeightBound against: the two heights are
\* taken for each other
handleUncleSwapMut(cfg, height, uncle, candidate) ==
    LET parsed == ParseHexNumber(uncle.Number)
        reward == GetUncleReward(parsed.val, height, cfg.mainNet)
    IN  IF ~parsed.ok THEN [err |-> "parse", c |-> candidate]
        ELSE [err |-> "",
              c |-> [candidate EXCEPT !.Height = parsed.val, !.UncleHeight = height,
                                      !.Orphan = FALSE, !.Hash = uncle.Hash,
                                      !.Reward = IF reward < 0 THEN 0 ELSE reward]]

\* a faulty handleUncle, to test NoNegativeReward against: the reward is taken
\* as the table gives it
handleUncleMut(cfg, height, uncle, candidate) ==
    LET parsed == ParseHexNumber(uncle.Number)
        reward == GetUncleReward(parsed.val, height, cfg.mainNet)
    IN  IF ~parsed.ok THEN [err |-> "parse", c |-> candidate]
        ELSE [err |-> "",
              c |-> [candidate EXCEPT !.Height = height, !.UncleHeight = parsed.val,
                                      !.Orphan = FALSE, !.Hash = uncle.Hash,
                                      !.Reward = reward]]

\* handleUncle
handleUncle(cfg, height, uncle, candidate) ==
    LET parsed == ParseHexNumber(uncle.Number)
        reward == GetUncleReward(parsed.val, height, cfg.mainNet)
    IN  IF ~parsed.ok THEN [err |-> "parse", c |-> candidate]
        ELSE [err |-> "",
              c |-> [candidate EXCEPT !.Height = height, !.UncleHeight = parsed.val,
                                      !.Orphan = FALSE, !.Hash = uncle.Hash,
                                      !.Reward = IF reward < 0 THEN 0 ELSE reward]]

RECURSIVE ScanUncles(_, _, _, _, _, _)
\* the loop over block.Uncles of unlockCandidates, from index idx on: the first
\* uncle that matches is handled and ends the loop
ScanUncles(node, cfg, c, height, block, idx) ==
    IF idx >= Len(block.Uncles) THEN [kind |-> "none", c |-> c, err |-> "", halt |-> FALSE]
    ELSE LET uncle == GetUncleByBlockNumberAndIndex(node, height, idx) IN
         IF uncle.st = "err" THEN [kind |-> "err", c |-> c, err |-> "uncle", halt |-> FALSE]
         ELSE IF uncle.st = "nil"
         THEN [kind |-> "err", c |-> c, err |-> "uncle-null", halt |-> FALSE]
         ELSE IF matchCandidate(uncle.b, c)
         THEN LET hu == handleUncle(cfg, height, uncle.b, c) IN
              IF hu.err # ""
              THEN [kind |-> "err", c |-> hu.c, err |-> hu.err, halt |-> TRUE]
              ELSE [kind |-> "uncle", c |-> hu.c, err |-> "", halt |-> FALSE]
         ELSE ScanUncles(node, cfg, c, height, block, idx + 1)

\* the offsets i of the loop "for i := int64(minDepth * -1); i < minDepth; i++"
FirstOffset == 0 - minDepth

PastOffset == minDepth

\* how a round of the loop over the window ends
RoundEnd(kind, c, err, halt) == [kind |-> kind, c |-> c, err |-> err, halt |-> halt]

\* "err = u.handleBlock(block, candidate)" and the test of err
AfterHandleBlock(hb) ==
    IF hb.err # "" THEN RoundEnd("err", hb.c, hb.err, TRUE)
    ELSE RoundEnd("block", hb.c, "", FALSE)

\* a round of the loop over the window once the node has replied
AfterGetBlock(node, cfg, c, height, reply) ==
    IF reply.st = "err" THEN RoundEnd("err", c, "block", FALSE)
    ELSE IF reply.st = "nil" THEN RoundEnd("err", c, "block-null", FALSE)
    ELSE IF matchCandidate(reply.b, c)
    THEN AfterHandleBlock(handleBlock(node, cfg, reply.b, c))
    ELSE ScanUncles(node, cfg, c, height, reply.b, 0)

\* one round of the loop over the window of unlockCandidates: the block at
\* height is fetched and compared, then its uncles.  kind "none": the loop goes
\* on to the next height.
ScanAt(node, cfg, c, height) ==
    AfterGetBlock(node, cfg, c, height, GetBlockByHeight(node, height))

\* a faulty window, to test WindowScan against: the loop runs up to the offset
\* minDepth included
WindowHeightsMut(c, i) == {h \in {c.Height + j : j \in i..PastOffset} : h >= 0}

\* the heights the loop over the window asks for from offset i on:
\* "height := candidate.Height + i; if height < 0 { continue }"
WindowHeights(c, i) == {h \in {c.Height + j : j \in i..(PastOffset - 1)} : h >= 0}

\* the heights of a window whose round does not go on to the next height
WindowStops(node, cfg, c, heights) ==
    {h \in heights : ScanAt(node, cfg, c, h).kind # "none"}

\* the heights from first to last, in the order the loop asks for them
HeightRange(first, last) == [k \in 1..(last - first + 1) |-> first + k - 1]

LowestOf(heights) == CHOOSE h \in heights : \A g \in heights : h <= g

HighestOf(heights) == CHOOSE h \in heights : \A g \in heights : g <= h

\* how the loop over the window ends: at the lowest height whose round does
\* not go on, or past the window with the candidate marked as an orphan
WindowEnd(node, cfg, c, heights, stops) ==
    IF heights = {}
    THEN [kind |-> "orphan", c |-> [c EXCEPT !.Orphan = TRUE], err |-> "",
          halt |-> FALSE, fetched |-> <<>>]
    ELSE IF stops = {}
    THEN [kind |-> "orphan", c |-> [c EXCEPT !.Orphan = TRUE], err |-> "",
          halt |-> FALSE, fetched |-> HeightRange(LowestOf(heights), HighestOf(heights))]
    ELSE [fetched |-> HeightRange(LowestOf(heights), LowestOf(stops))]
         @@ ScanAt(node, cfg, c, LowestOf(stops))

\* the loop over the window of unlockCandidates for one candidate, from offset
\* i on: the rounds run in ascending order of height and the first round that
\* does not go on ends the loop.
\* kind: how the loop ended; fetched: the heights asked of the node.
ScanWindow(node, cfg, c, i) ==
    WindowEnd(node, cfg, c, WindowHeights(c, i),
              WindowStops(node, cfg, c, WindowHeights(c, i)))

\* the scan of one candidate
ScanCandidate(node, cfg, c) == ScanWindow(node, cfg, c, FirstOffset)

EmptyResult ==
    [maturedBlocks |-> <<>>, orphanedBlocks |-> <<>>, orphans |-> 0, uncles |-> 0,
     blocks |-> 0]

\* a faulty Record, to test ExclusiveClassification against: an uncle is put
\* among the orphans as well
RecordMut(result, scan) ==
    CASE scan.kind = "block" ->
            [result EXCEPT !.blocks = @ + 1, !.maturedBlocks = Append(@, scan.c)]
      [] scan.kind = "uncle" ->
            [result EXCEPT !.uncles = @ + 1, !.maturedBlocks = Append(@, scan.c),
                           !.orphans = @ + 1, !.orphanedBlocks = Append(@, scan.c)]
      [] scan.kind = "orphan" ->
            [result EXCEPT !.orphans = @ + 1, !.orphanedBlocks = Append(@, scan.c)]
      [] OTHER -> result

\* what one scanned candidate adds to the UnlockResult
Record(result, scan) ==
    CASE scan.kind = "block" ->
            [result EXCEPT !.blocks = @ + 1, !.maturedBlocks = Append(@, scan.c)]
      [] scan.kind = "uncle" ->
            [result EXCEPT !.uncles = @ + 1, !.maturedBlocks = Append(@, scan.c)]
      [] scan.kind = "orphan" ->
            [result EXCEPT !.orphans = @ + 1, !.orphanedBlocks = Append(@, scan.c)]
      [] OTHER -> result

RECURSIVE UnlockFrom(_, _, _, _, _)
RECURSIVE AfterScan(_, _, _, _, _, _)
\* the loop over the candidates of unlockCandidates from the k-th on.
\* err: "" when it returns (result, nil); halt: whether it set u.halt itself;
\* scans: what the loop did for each candidate it reached.
UnlockFrom(node, cfg, candidates, k, result) ==
    IF k > Len(candidates)
    THEN [err |-> "", halt |-> FALSE, result |-> result, scans |-> <<>>]
    ELSE AfterScan(node, cfg, candidates, k, result,
                   ScanCandidate(node, cfg, candidates[k]))

\* what the loop did for a candidate put before what it did for the later ones
WithScan(scan, rest) == [rest EXCEPT !.scans = <<scan>> \o rest.scans]

\* the loop over the candidates once the k-th is scanned: an error returns,
\* anything else is recorded in the result and the loop goes on
AfterScan(node, cfg, candidates, k, result, scan) ==
    IF scan.kind = "err"
    THEN [err |-> scan.err, halt |-> scan.halt, result |-> EmptyResult, scans |-> <<scan>>]
    ELSE WithScan(scan, UnlockFrom(node, cfg, candidates, k + 1, Record(result, scan)))

\* unlockCandidates
unlockCandidates(node, cfg, candidates) == UnlockFrom(node, cfg, candidates, 1, EmptyResult)

\* ------------------------------------------------------------- rationals

RECURSIVE GCD(_, _)
GCD(a, b) == IF b = 0 THEN a ELSE GCD(b, a % b)

Abs(x) == IF x < 0 THEN 0 - x ELSE x

\* big.Rat: a fraction in lowest terms with a positive denominator
Rat(n, d) ==
    LET g == GCD(Abs(n), Abs(d))
        sgn == IF d < 0 THEN 0 - 1 ELSE 1
    IN  [n |-> (sgn * n) \div g, d |-> (sgn * d) \div g]

RatInt(x) == [n |-> x, d |-> 1]

RatAdd(x, y) == Rat(x.n * y.d + y.n * x.d, x.d * y.d)

RatSub(x, y) == Rat(x.n * y.d - y.n * x.d, x.d * y.d)

RatMul(x, y) == Rat(x.n * y.n, x.d * y.d)

RatLeq(x, y) == x.n * y.d <= y.n * x.d

\* util.Shannon is 10^9 wei; amounts are counted in units of 10^8 wei
Shannon == (10 ^ 9) \div (10 ^ 8)

\* Rat.FloatString(0) read back by strconv.ParseInt: the nearest integer,
\* halves away from zero
RoundHalfAway(x) ==
    IF x.n >= 0 THEN (2 * x.n + x.d) \div (2 * x.d)
    ELSE 0 - ((2 * (0 - x.n) + x.d) \div (2 * x.d))

\* weiToShannonInt64
weiToShannonInt64(wei) == RoundHalfAway(Rat(wei.n, wei.d * Shannon))

\* a faulty chargeFee, to test RevenueConservation against: the fee is not
\* taken off the value
chargeFeeMut(value, fee) == <<value, RatMul(value, Rat(fee, 100))>>

\* chargeFee: (value - value * fee / 100, value * fee / 100).  SetFloat64(fee / 100)
\* is the binary fraction nearest to fee / 100; it is taken to be fee / 100.
chargeFee(value, fee) ==
    LET feePercent == Rat(fee, 100)
        feeValue == RatMul(value, feePercent)
    IN  <<RatSub(value, feeValue), feeValue>>

\* ---------------------------------------------------------------- rewards

\* donationAccount (shortened), and its lower case
donationAccount == <<"0", "x", "b", "0", "5">>

RECURSIVE SumOver(_, _)
\* the sum of map m over the keys of set ks
SumOver(m, ks) ==
    IF ks = {} THEN 0
    ELSE LET k == CHOOSE x \in ks : TRUE IN m[k] + SumOver(m, ks \ {k})

SumMap(m) == SumOver(m, DOMAIN m)

\* rewards[key] += amount, on a map that may not hold key yet
AddTo(rewards, key, amount) ==
    [k \in DOMAIN rewards \cup {key} |->
        (IF k \in DOMAIN rewards THEN rewards[k] ELSE 0) + (IF k = key THEN amount ELSE 0)]

\* calculateRewardsForShares: <<rewards, percents>>
calculateRewardsForShares(shares, total, reward) ==
    LET percents == [login \in DOMAIN shares |-> Rat(shares[login], total)]
        rewards == [login \in DOMAIN shares |->
                        weiToShannonInt64(RatMul(reward, percents[login]))]
    IN  <<rewards, percents>>

NoRewards ==
    [err |-> "", panic |-> FALSE, nil |-> TRUE, revenue |-> RatInt(0),
     minersProfit |-> RatInt(0), poolProfit |-> RatInt(0), donation |-> RatInt(0),
     rewards |-> <<>>, percents |-> <<>>]

\* calculateRewards.  reply is what GetRoundShares returned: [err, shares].
\* err: the error returned; nil: roundRewards is nil; panic: big.NewRat divides
\* by a total of zero.  donation is the local of that name, 0 when not donating.
calculateRewards(cfg, block, reply) ==
    LET revenue == RatInt(block.Reward)
        fee == chargeFee(revenue, cfg.PoolFee)
        minersProfit == fee[1]
        shares == reply.shares
        totalShares == SumMap(shares)
        split == calculateRewardsForShares(shares, totalShares, minersProfit)
        extraReward == RatInt(block.ExtraReward)
        poolProfit1 == IF block.HasExtra THEN RatAdd(fee[2], extraReward) ELSE fee[2]
        revenue1 == IF block.HasExtra THEN RatAdd(revenue, extraReward) ELSE revenue
        don == chargeFee(poolProfit1, donationFee)
        poolProfit2 == IF cfg.Donate THEN don[1] ELSE poolProfit1
        donation == IF cfg.Donate THEN don[2] ELSE RatInt(0)
        rewards1 == IF cfg.Donate
                    THEN AddTo(split[1], ToLower(donationAccount), weiToShannonInt64(donation))
                    ELSE split[1]
        rewards2 == IF Len(cfg.PoolFeeAddress) # 0
                    THEN AddTo(rewards1, ToLower(cfg.PoolFeeAddress),
                               weiToShannonInt64(poolProfit2))
                    ELSE rewards1
    IN  IF reply.err # "" THEN [NoRewards EXCEPT !.err = reply.err]
        ELSE IF DOMAIN shares = {} THEN NoRewards
        ELSE IF totalShares = 0 THEN [NoRewards EXCEPT !.panic = TRUE]
        ELSE [err |-> "", panic |-> FALSE, nil |-> FALSE, revenue |-> revenue1,
              minersProfit |-> minersProfit, poolProfit |-> poolProfit2,
              donation |-> donation, rewards |-> rewards2, percents |-> split[2]]

\* ---------------------------------------------------------------- the store

\* The store holds, for every round (key), the block data and where the round
\* is in the pipeline: "candidate", "immature", "matured", "orphan", or "error"
\* (marked unable to credit).  A write that returns an error changes nothing.
Listing(db, status, maxHeight) ==
    LET keys == {k \in DOMAIN db :
                    db[k].status = status /\ db[k].c.Height <= maxHeight}
        Pick[ks \in SUBSET keys] ==
            IF ks = {} THEN <<>>
            ELSE LET k == CHOOSE x \in ks : \A y \in ks : x <= y
                 IN  <<db[k].c>> \o Pick[ks \ {k}]
    IN  Pick[keys]

\* db.GetCandidates(maxHeight)
GetCandidates(db, maxHeight) == Listing(db, "candidate", maxHeight)

\* db.GetImmatureBlocks(maxHeight)
GetImmatureBlocks(db, maxHeight) == Listing(db, "immature", maxHeight)

RECURSIVE MarkAll(_, _, _)
MarkAll(db, blocks, status) ==
    IF Len(blocks) = 0 THEN db
    ELSE MarkAll([db EXCEPT ![blocks[1].ptr] = [status |-> status, c |-> blocks[1]]],
                 Tail(blocks), status)

\* db.WritePendingOrphans(blocks)
WritePendingOrphans(db, blocks) == MarkAll(db, blocks, "orphan")

\* db.WriteOrphan(block)
WriteOrphan(db, block) == MarkAll(db, <<block>>, "orphan")

\* db.WriteImmatureBlock(block, rewards, percents)
WriteImmatureBlock(db, block) ==
    MarkAll(db, <<[block EXCEPT !.State = 1]>>, "immature")

\* db.WriteMaturedBlock(block, rewards, percents)
WriteMaturedBlock(db, block) ==
    MarkAll(db, <<[block EXCEPT !.State = 2]>>, "matured")

\* db.WriteImmatureError(block, state, errNum)
WriteImmatureError(db, block) == MarkAll(db, <<block>>, "error")

\* ---------------------------------------------------------------- the passes

P1 == "unlockPendingBlocks"

P2 == "unlockAndCreditMiners"

\* one call a pass made, as the pass's record of calls keeps it: every call to
\* the store and to the share store, and every call that failed.  key: the
\* candidate (0: none); a, b: two arguments or results of the call.
Call(op, ok, key, a, b) == [op |-> op, ok |-> ok, key |-> key, a |-> a, b |-> b]

\* what a step of a pass does: the calls it made, whether it set halt and to
\* which error, the store after it, the locals after it, and where the pass
\* goes: a pc, or "done" / "abort" when the function returns.
Effect(calls, fail, db, ps, next) ==
    [calls |-> calls, fail |-> fail, db |-> db, ps |-> ps, next |-> next]

\* a faulty head, to test StickyHalt against: the halt test is missing
StepEnterMut(halted, db, ps, reply) ==
    LET parsed == ParseHexNumber(reply.Number) IN
    IF reply.st = "err"
    THEN Effect(<<Call("get_pending_block", FALSE, 0, 0, 0)>>, "get_pending_block",
                db, ps, "abort")
    ELSE IF ~parsed.ok
    THEN Effect(<<Call("parse_number", FALSE, 0, 0, 0)>>, "parse_number", db, ps, "abort")
    ELSE Effect(<<>>, "", db, [ps EXCEPT !.H = parsed.val], "load")

\* the head of both passes: the halt test, GetPendingBlock, the parse of its
\* number.  reply: what GetPendingBlock returned.
StepEnter(halted, db, ps, reply) ==
    LET parsed == ParseHexNumber(reply.Number) IN
    IF halted THEN Effect(<<>>, "", db, ps, "done")
    ELSE IF reply.st = "err"
    THEN Effect(<<Call("get_pending_block", FALSE, 0, 0, 0)>>, "get_pending_block",
                db, ps, "abort")
    ELSE IF ~parsed.ok
    THEN Effect(<<Call("parse_number", FALSE, 0, 0, 0)>>, "parse_number", db, ps, "abort")
    ELSE Effect(<<>>, "", db, [ps EXCEPT !.H = parsed.val], "load")

\* a faulty working set, to test PipelineOrder against: the second pass loads
\* the candidates too
WorkingSetMut(fn, cfg, db, H) == GetCandidates(db, H - cfg.ImmatureDepth)

\* the working set of a pass: GetCandidates(currentHeight - ImmatureDepth) in
\* the first, GetImmatureBlocks(currentHeight - Depth) in the second
WorkingSet(fn, cfg, db, H) ==
    IF fn = P1 THEN GetCandidates(db, H - cfg.ImmatureDepth)
    ELSE GetImmatureBlocks(db, H - cfg.Depth)

\* the load of the working set.  ok: whether the store answered.
StepLoad(cfg, db, ps, ok) ==
    LET op == IF ps.fn = P1 THEN "get_candidates" ELSE "get_immature_blocks"
        list == WorkingSet(ps.fn, cfg, db, ps.H)
    IN  IF ~ok THEN Effect(<<Call(op, FALSE, 0, 0, 0)>>, op, db, ps, "abort")
        ELSE IF Len(list) = 0 THEN Effect(<<Call(op, TRUE, 0, 0, 0)>>, "", db, ps, "done")
        ELSE Effect(<<Call(op, TRUE, 0, Len(list), 0)>>, "", db,
                    [ps EXCEPT !.cands = list], "match")

\* where a pass goes once the orphans from index i on are written
AfterOrphans(ps, result, i) ==
    IF ps.fn = P2 /\ i <= Len(result.orphanedBlocks) THEN "orphans"
    ELSE IF Len(result.maturedBlocks) = 0 THEN "done"
    ELSE "credit"

\* the heights a call of unlockCandidates asked of the node
FetchedBy(out) ==
    UNION {{out.scans[k].fetched[j] : j \in 1..Len(out.scans[k].fetched)} :
              k \in 1..Len(out.scans)}

\* the test of the error of unlockCandidates
AfterUnlock(db, ps, out) ==
    IF out.err # ""
    THEN Effect(<<Call(out.err, FALSE, 0, 0, 0)>>, out.err, db,
                [ps EXCEPT !.fetched = FetchedBy(out)], "abort")
    ELSE Effect(<<>>, "", db,
                [ps EXCEPT !.result = out.result, !.i = 1, !.fetched = FetchedBy(out)],
                IF ps.fn = P1 THEN "orphans" ELSE AfterOrphans(ps, out.result, 1))

\* where a pass that does not look at the error of unlockCandidates goes
GoOn(ps, e) ==
    IF e.next # "abort" THEN e
    ELSE [e EXCEPT !.ps = [e.ps EXCEPT !.i = 1],
                   !.next = IF ps.fn = P1 THEN "orphans" ELSE "done"]

\* a faulty call of the matcher, to test MatcherFailureWritesNothing against:
\* the pass goes on after an error
StepMatchMut(node, cfg, db, ps) ==
    GoOn(ps, AfterUnlock(db, ps, unlockCandidates(node, cfg, ps.cands)))

\* the call of unlockCandidates and the test of its error
StepMatch(node, cfg, db, ps) ==
    AfterUnlock(db, ps, unlockCandidates(node, cfg, ps.cands))

\* the orphans: one WritePendingOrphans in the first pass, one WriteOrphan for
\* each orphaned block in the second.  ok: whether the store took the write.
StepOrphans(db, ps, ok) ==
    LET orphaned == ps.result.orphanedBlocks IN
    IF ps.fn = P1
    THEN IF ~ok
         THEN Effect(<<Call("write_pending_orphans", FALSE, 0, Len(orphaned), 0)>>,
                     "write_pending_orphans", db, ps, "abort")
         ELSE Effect(<<Call("write_pending_orphans", TRUE, 0, Len(orphaned), 0)>>, "",
                     WritePendingOrphans(db, orphaned), ps,
                     AfterOrphans(ps, ps.result, 1))
    ELSE LET block == orphaned[ps.i] IN
         IF ~ok
         THEN Effect(<<Call("write_orphan", FALSE, block.ptr, 0, 0)>>, "write_orphan",
                     db, ps, "abort")
         ELSE Effect(<<Call("write_orphan", TRUE, block.ptr, 0, 0)>>, "",
                     WriteOrphan(db, block),
                     [ps EXCEPT !.i = IF ps.i = Len(orphaned) THEN 1 ELSE ps.i + 1],
                     AfterOrphans(ps, ps.result, ps.i + 1))

\* a faulty round, to test NoSharesNonFatal against: the "continue" after the
\* marker is missing
StepCreditMut(cfg, db, ps, reply, ok) ==
    LET block == ps.result.maturedBlocks[ps.i]
        dist == calculateRewards(cfg, block, reply)
        shares == Call("get_round_shares", dist.err = "", block.ptr,
                       Cardinality(DOMAIN reply.shares), 0)
        marker == IF ps.fn = P1 THEN Call("write_immature_error", ok, block.ptr, 0, 1)
                  ELSE Call("write_immature_error", ok, block.ptr, block.State, 2)
        wop == IF ps.fn = P1 THEN "write_immature_block" ELSE "write_matured_block"
        write == Call(wop, ok, block.ptr, SumMap(dist.rewards), Cardinality(DOMAIN dist.rewards))
        written == IF ps.fn = P1 THEN WriteImmatureBlock(db, block)
                   ELSE WriteMaturedBlock(db, block)
        on == [ps EXCEPT !.i = ps.i + 1]
        next == IF ps.i = Len(ps.result.maturedBlocks) THEN "done" ELSE "credit"
    IN  IF dist.err # "" THEN Effect(<<shares>>, "get_round_shares", db, ps, "abort")
        ELSE IF dist.nil /\ ~ok
        THEN Effect(<<shares, marker, write>>, wop, db, ps, "abort")
        ELSE IF dist.nil
        THEN Effect(<<shares, marker, write>>, "", written, on, next)
        ELSE IF ~ok THEN Effect(<<shares, write>>, wop, db, ps, "abort")
        ELSE Effect(<<shares, write>>, "", written, on, next)

\* one round of the loop over result.maturedBlocks: calculateRewards, then the
\* marker when there are no shares, else the write of the block and its
\* credits.  reply: what GetRoundShares returned; ok: whether the store took
\* the write.  The result of WriteImmatureError is not looked at.
StepCredit(cfg, db, ps, reply, ok) ==
    LET block == ps.result.maturedBlocks[ps.i]
        dist == calculateRewards(cfg, block, reply)
        shares == Call("get_round_shares", dist.err = "", block.ptr,
                       Cardinality(DOMAIN reply.shares), 0)
        marker == IF ps.fn = P1 THEN Call("write_immature_error", ok, block.ptr, 0, 1)
                  ELSE Call("write_immature_error", ok, block.ptr, block.State, 2)
        wop == IF ps.fn = P1 THEN "write_immature_block" ELSE "write_matured_block"
        write == Call(wop, ok, block.ptr, SumMap(dist.rewards), Cardinality(DOMAIN dist.rewards))
        written == IF ps.fn = P1 THEN WriteImmatureBlock(db, block)
                   ELSE WriteMaturedBlock(db, block)
        on == [ps EXCEPT !.i = ps.i + 1]
        next == IF ps.i = Len(ps.result.maturedBlocks) THEN "done" ELSE "credit"
    IN  IF dist.err # "" THEN Effect(<<shares>>, "get_round_shares", db, ps, "abort")
        ELSE IF dist.nil
        THEN Effect(<<shares, marker>>, "",
                    IF ok THEN WriteImmatureError(db, block) ELSE db, on, next)
        ELSE IF ~ok THEN Effect(<<shares, write>>, wop, db, ps, "abort")
        ELSE Effect(<<shares, write>>, "", written, on, next)

\* ---------------------------------------------------------------- state

VARIABLES
    mNode,      \* matcher model: the node the matcher asks
    mCfg,       \* matcher model: the configuration
    mCands,     \* matcher model: the candidates handed to unlockCandidates
    mOut,       \* matcher model: what the first unlockCandidates returned
    mOut2,      \* matcher model: what the second one returned
    mPhase,     \* matcher model: "in", "once", "twice"
    probe,      \* predicate model: a block, a candidate, matchCandidate's answer
    rw,         \* reward model: the inputs of calculateRewards and what it returned
    sNode,      \* the node the unlocker asks
    sCfg,       \* u.config and u.mainNet
    halt,       \* u.halt
    lastFail,   \* u.lastFail: "" is nil, else the call that failed
    store,      \* the candidate store: key -> [status, c]
    pass,       \* per thread, the locals of the pass it runs or ran last
    startPc,    \* the statement of Start the caller is at
    workerPc,   \* where the goroutine of Start is
    hookPc,     \* where the shutdown hook is
    quitClosed, \* whether the quit channel is closed
    timerArmed, \* whether the timer is running
    timerC,     \* the ticks waiting in timer.C (0 or 1)
    ticks,      \* the ticks the worker has served
    order,      \* per thread, the passes begun and ended in its current round
    issued      \* the keys a write of an immature / a matured block was issued for

matchVars == <<mNode, mCfg, mCands, mOut, mOut2, mPhase>>

schedVars ==
    <<sNode, sCfg, halt, lastFail, store, pass, startPc, workerPc, hookPc, quitClosed,
      timerArmed, timerC, ticks, order, issued>>

vars == <<matchVars, probe, rw, schedVars>>

\* ------------------------------------------------------- the matcher model

BaseCfg ==
    [PoolFee |-> 0, PoolFeeAddress |-> <<>>, Donate |-> FALSE, Depth |-> 2 * minDepth,
     ImmatureDepth |-> minDepth, KeepTxFees |-> FALSE, mainNet |-> TRUE]

\* heights the node holds something special at: the edges of the windows of the
\* candidates below, and their middle
FeatHeights == {3, 4, 20, 35, 36}

Feats == [h : FeatHeights, who : {"a", "b"}, kind : Kinds]

\* the kinds the higher of two features is drawn from
SecondKinds == {"geth", "parity", "uncle", "err", "nil"}

FeatSets ==
    {{}} \cup {{f} : f \in Feats}
         \cup {{p[1], p[2]} :
                 p \in {q \in Feats \X Feats : q[2].h > q[1].h /\ q[2].kind \in SecondKinds}}

\* a candidate the store held as immature: matched before, with the hash as
\* the store keeps it
Immature(ptr, height, who, hash, uncleHeight) ==
    [NewCandidate(ptr, height, who) EXCEPT
        !.Hash = hash, !.UncleHeight = uncleHeight, !.State = 1, !.Reward = 320]

CandLists ==
    { <<NewCandidate(1, 20, "a")>>,
      <<NewCandidate(1, 2, "a")>>,
      <<NewCandidate(1, 20, "a"), NewCandidate(2, 20, "b")>>,
      <<[NewCandidate(1, 2, "b") EXCEPT !.Orphan = TRUE], NewCandidate(2, 20, "a")>>,
      <<Immature(1, 20, "a", ToLower(BlockHash(20)), 0)>>,
      <<Immature(1, 20, "a", ToLower(UncleHash(20, 1)), 18)>> }

MatchCfgs ==
    { BaseCfg, [BaseCfg EXCEPT !.KeepTxFees = TRUE, !.mainNet = FALSE] }

NoOut == [err |-> "", halt |-> FALSE, result |-> EmptyResult, scans |-> <<>>]

ProbeIdle == [done |-> FALSE, b |-> NoBlock, c |-> NewCandidate(0, 0, "a"), r |-> FALSE]

NoPass ==
    [fn |-> "", pc |-> "", ret |-> "", H |-> 0, cands |-> <<>>, result |-> EmptyResult,
     i |-> 0, calls |-> <<>>, fetched |-> {}]

Threads == {"main", "worker"}

NoReply == [err |-> "", shares |-> <<>>]

RewardIdle ==
    rw = [done |-> FALSE, cfg |-> BaseCfg, block |-> NewCandidate(0, 0, "a"),
          reply |-> NoReply, out |-> NoRewards]

SchedIdle ==
    /\ sNode = [head |-> 0, feats |-> {}]
    /\ sCfg = BaseCfg
    /\ halt = FALSE
    /\ lastFail = ""
    /\ store = <<>>
    /\ pass = [t \in Threads |-> NoPass]
    /\ startPc = 0
    /\ workerPc = "none"
    /\ hookPc = "unregistered"
    /\ quitClosed = FALSE
    /\ timerArmed = FALSE
    /\ timerC = 0
    /\ ticks = 0
    /\ order = [t \in Threads |-> <<>>]
    /\ issued = [imm |-> {}, mat |-> {}]

MatchIdle ==
    /\ mNode = [head |-> 0, feats |-> {}]
    /\ mCfg = BaseCfg
    /\ mCands = <<>>
    /\ mOut = NoOut
    /\ mOut2 = NoOut
    /\ mPhase = "off"

InitMatch ==
    /\ mNode \in {[head |-> MaxHeight, feats |-> F] : F \in FeatSets}
    /\ mCfg \in MatchCfgs
    /\ mCands \in CandLists
    /\ mOut = NoOut
    /\ mOut2 = NoOut
    /\ mPhase = "in"
    /\ probe = ProbeIdle
    /\ RewardIdle
    /\ SchedIdle

\* the candidates as a run left them, in the order they were handed in
LeftBy(out) == [k \in 1..Len(out.scans) |-> out.scans[k].c]

\* unlockCandidates(candidates)
Unlock ==
    /\ mPhase = "in"
    /\ mOut' = unlockCandidates(mNode, mCfg, mCands)
    /\ mPhase' = "once"
    /\ UNCHANGED <<mNode, mCfg, mCands, mOut2, probe, rw, schedVars>>

\* unlockCandidates again, on the candidates the first call returned
Rerun ==
    /\ mPhase = "once"
    /\ mOut.err = ""
    /\ mOut2' = unlockCandidates(mNode, mCfg, LeftBy(mOut))
    /\ mPhase' = "twice"
    /\ UNCHANGED <<mNode, mCfg, mCands, mOut, probe, rw, schedVars>>

NextMatch == Unlock \/ Rerun

SpecMatch == InitMatch /\ [][NextMatch]_vars

\* ----------------------------------------------------- the predicate model

Hashes == {<<>>, BlockHash(20), ToLower(BlockHash(20)), BlockHash(21)}

Nonces == {<<>>, PoolNonce("a"), NodeNonce("a"), PoolNonce("b")}

Seals ==
    {<<>>, <<NodeNonce("a")>>, <<MixDigest, NodeNonce("a")>>, <<MixDigest, PoolNonce("a")>>,
     <<MixDigest, PoolNonce("b")>>, <<MixDigest, NodeNonce("a"), MixDigest>>}

ProbeBlocks ==
    {[NoBlock EXCEPT !.Hash = h, !.Nonce = n, !.SealFields = sf] :
        h \in Hashes, n \in Nonces, sf \in Seals}

ProbeCands ==
    {[NewCandidate(1, 20, "a") EXCEPT !.Hash = h, !.Nonce = n] :
        h \in Hashes, n \in Nonces}

InitProbe ==
    /\ MatchIdle
    /\ probe = ProbeIdle
    /\ RewardIdle
    /\ SchedIdle

\* matchCandidate(block, candidate)
Probe ==
    /\ ~probe.done
    /\ \E b \in ProbeBlocks, c \in ProbeCands :
          probe' = [done |-> TRUE, b |-> b, c |-> c, r |-> matchCandidate(b, c)]
    /\ UNCHANGED <<matchVars, rw, schedVars>>

NextProbe == Probe

SpecProbe == InitProbe /\ [][NextProbe]_vars

\* -------------------------------------------------------- the reward model

\* highest share count of a miner in the reward model
MaxShare == 2

Miners == {<<"0", "x", "a", "1">>, <<"0", "x", "a", "2">>, <<"0", "x", "a", "3">>}

ShareMaps == UNION {[ms -> 0..MaxShare] : ms \in SUBSET Miners}

\* an address of the pool, written with an upper-case letter, and an address
\* that is also a miner's login
FeeAddresses == {<<>>, <<"0", "x", "F", "E">>, <<"0", "x", "A", "1">>}

RewardCfgs ==
    {[BaseCfg EXCEPT !.PoolFee = fee, !.Donate = don, !.PoolFeeAddress = addr] :
        fee \in {0, 25, 50}, don \in BOOLEAN, addr \in FeeAddresses}

\* blocks as the matcher leaves them: the reward in units of 10^8 wei, the
\* transaction fees kept apart or not
RewardBlocks ==
    {[NewCandidate(1, 20, "a") EXCEPT !.Reward = r, !.HasExtra = x, !.ExtraReward = e] :
        r \in {5, 10, 164}, x \in {TRUE}, e \in {0, 6}}
    \cup {[NewCandidate(1, 20, "a") EXCEPT !.Reward = r] : r \in {5, 10, 164}}

ShareReplies ==
    {[err |-> "get_round_shares", shares |-> <<>>]}
    \cup {[err |-> "", shares |-> m] : m \in ShareMaps}

InitRewards ==
    /\ MatchIdle
    /\ probe = ProbeIdle
    /\ SchedIdle
    /\ rw \in [done : {FALSE}, cfg : RewardCfgs, block : RewardBlocks,
               reply : ShareReplies, out : {NoRewards}]

\* calculateRewards(block)
Calculate ==
    /\ ~rw.done
    /\ DOMAIN rw.reply.shares # {}
    /\ rw' = [rw EXCEPT !.done = TRUE,
                        !.out = calculateRewards(rw.cfg, rw.block, rw.reply)]
    /\ UNCHANGED <<matchVars, probe, schedVars>>

\* calculateRewards(block) when the share store has nothing, or fails
CalculateNone ==
    /\ ~rw.done
    /\ DOMAIN rw.reply.shares = {}
    /\ rw' = [rw EXCEPT !.done = TRUE,
                        !.out = calculateRewards(rw.cfg, rw.block, rw.reply)]
    /\ UNCHANGED <<matchVars, probe, schedVars>>

NextRewards == Calculate \/ CalculateNone

SpecRewards == InitRewards /\ [][NextRewards]_vars

\* ------------------------------------------------------- the scheduler model

\* a faulty Start, to test NoOverlappingPasses against: the goroutine is
\* started before the immediate passes
StartSeqMut == <<"newtimer", "go", "p1", "p2", "reset", "hook">>

\* the statements of Start, in the order it runs them: time.NewTimer, the two
\* immediate passes, timer.Reset, hook.RegistryHook, the go statement
StartSeq == <<"newtimer", "p1", "p2", "reset", "hook", "go">>

StartStmt == IF startPc \in 1..Len(StartSeq) THEN StartSeq[startPc] ELSE ""

\* a faulty goroutine, to test ShutdownSafety against: the "return" after the
\* acknowledgement is missing
AfterAckMut == "select"

\* where the goroutine is after "hooks <- struct{}{}": the return
AfterAck == "exited"

\* what GetPendingBlock may reply: an error, a number that does not parse, a
\* head at which the first pass has work, a head at which both have
PendingReplies ==
    {[st |-> "err", Number |-> <<>>], [st |-> "ok", Number |-> <<"0", "x", "z">>],
     [st |-> "ok", Number |-> HexNumber(35)], [st |-> "ok", Number |-> HexNumber(36)],
     [st |-> "ok", Number |-> HexNumber(MaxHeight)]}

\* what may go wrong with the node while the matcher runs
Faults ==
    {{}, {[h |-> 5, who |-> "a", kind |-> "err"]}, {[h |-> 6, who |-> "a", kind |-> "nil"]},
     {[h |-> 22, who |-> "a", kind |-> "err"]}, {[h |-> 22, who |-> "b", kind |-> "txerr"]},
     {[h |-> 22, who |-> "b", kind |-> "unil"]}}

\* what GetRoundShares may reply
RoundReplies ==
    {[err |-> "get_round_shares", shares |-> <<>>], [err |-> "", shares |-> <<>>],
     [err |-> "", shares |-> [m \in Miners \ {<<"0", "x", "a", "3">>} |-> 1]]}

SchedNodes ==
    {[head |-> MaxHeight, feats |-> F] :
        F \in {{[h |-> 20, who |-> "a", kind |-> "geth"]},
               {[h |-> 20, who |-> "a", kind |-> "tx"], [h |-> 19, who |-> "b", kind |-> "uncle"]},
               {[h |-> 21, who |-> "b", kind |-> "txerr"]}}}

SchedCfg ==
    [BaseCfg EXCEPT !.PoolFee = 25, !.PoolFeeAddress = <<"0", "x", "F", "E">>,
                    !.Donate = TRUE]

\* a faulty NewBlockUnlocker, to test FetchesBelowHead against: both tests are
\* off by one
NewBlockUnlockerMut(cfg) ==
    /\ ~(cfg.Depth < minDepth * 2 - 1)
    /\ ~(cfg.ImmatureDepth < minDepth - 1)

\* NewBlockUnlocker: whether it returns an unlocker for cfg; log.Fatalf ends
\* the process otherwise.  The fee address of the configurations is valid.
NewBlockUnlocker(cfg) ==
    /\ ~(cfg.Depth < minDepth * 2)
    /\ ~(cfg.ImmatureDepth < minDepth)

\* the depths an operator may configure: the smallest allowed, deeper ones,
\* and one too shallow for each
Depths ==
    {<<minDepth * 2, minDepth>>, <<minDepth * 2 + 1, minDepth + 1>>,
     <<minDepth * 2 - 1, minDepth>>, <<minDepth * 2, minDepth - 1>>}

\* the configurations an unlocker runs with
SchedCfgs ==
    {cfg \in {[SchedCfg EXCEPT !.Depth = d[1], !.ImmatureDepth = d[2]] : d \in Depths} :
        NewBlockUnlocker(cfg)}

InitSched ==
    /\ MatchIdle
    /\ probe = ProbeIdle
    /\ RewardIdle
    /\ sNode \in SchedNodes
    /\ sCfg \in SchedCfgs
    /\ halt = FALSE
    /\ lastFail = ""
    /\ store = [k \in {1, 2} |->
                  [status |-> "candidate",
                   c |-> NewCandidate(k, 20, IF k = 1 THEN "a" ELSE "b")]]
    /\ pass = [t \in Threads |-> NoPass]
    /\ startPc = 1
    /\ workerPc = "none"
    /\ hookPc = "unregistered"
    /\ quitClosed = FALSE
    /\ timerArmed = FALSE
    /\ timerC = 0
    /\ ticks = 0
    /\ order = [t \in Threads |-> <<>>]
    /\ issued = [imm |-> {}, mat |-> {}]

idleVars == <<matchVars, probe, rw, sNode, sCfg>>

Running(t) == pass[t].pc # ""

\* the keys the calls of a step issued a write of kind op for
Keys(calls, op) == {calls[k].key : k \in {j \in 1..Len(calls) : calls[j].op = op}}

\* a thread calls a pass
CallPass(t, fn) ==
    /\ pass' = [pass EXCEPT ![t] = [NoPass EXCEPT !.fn = fn, !.pc = "enter"]]
    /\ order' = [order EXCEPT ![t] = Append(@, <<fn, "begin">>)]

\* a step of the pass of thread t takes effect; the pass returns to its caller
\* when the step ends it
Apply(t, e) ==
    LET returns == e.next \in {"done", "abort"} IN
    /\ halt' = (halt \/ e.fail # "")
    /\ lastFail' = IF e.fail # "" THEN e.fail ELSE lastFail
    /\ store' = e.db
    /\ pass' = [pass EXCEPT ![t] =
                  IF returns
                  THEN [NoPass EXCEPT !.fn = pass[t].fn, !.ret = e.next, !.H = e.ps.H,
                                      !.fetched = e.ps.fetched,
                                      !.calls = pass[t].calls \o e.calls]
                  ELSE [e.ps EXCEPT !.calls = pass[t].calls \o e.calls, !.pc = e.next]]
    /\ issued' = [imm |-> issued.imm \cup
                            {c.key : c \in {x \in {e.calls[k] : k \in 1..Len(e.calls)} :
                                               x.op = "write_immature_block" /\ x.ok}},
                  mat |-> issued.mat \cup Keys(e.calls, "write_matured_block")]
    /\ order' = IF returns THEN [order EXCEPT ![t] = Append(@, <<pass[t].fn, "end">>)]
                ELSE order
    /\ IF returns /\ t = "main" THEN startPc' = startPc + 1 ELSE UNCHANGED startPc
    /\ IF returns /\ t = "worker"
       THEN workerPc' = (IF workerPc = "p1" THEN "p2" ELSE "reset")
       ELSE UNCHANGED workerPc

PassEnter(t) ==
    /\ pass[t].pc = "enter"
    /\ \E reply \in PendingReplies : Apply(t, StepEnter(halt, store, pass[t], reply))
    /\ UNCHANGED <<idleVars, hookPc, quitClosed, timerArmed, timerC, ticks>>

PassLoad(t) ==
    /\ pass[t].pc = "load"
    /\ \E ok \in BOOLEAN : Apply(t, StepLoad(sCfg, store, pass[t], ok))
    /\ UNCHANGED <<idleVars, hookPc, quitClosed, timerArmed, timerC, ticks>>

PassMatch(t) ==
    /\ pass[t].pc = "match"
    /\ \E fault \in Faults :
          Apply(t, StepMatch([sNode EXCEPT !.feats = @ \cup fault], sCfg, store, pass[t]))
    /\ UNCHANGED <<idleVars, hookPc, quitClosed, timerArmed, timerC, ticks>>

PassOrphans(t) ==
    /\ pass[t].pc = "orphans"
    /\ \E ok \in BOOLEAN : Apply(t, StepOrphans(store, pass[t], ok))
    /\ UNCHANGED <<idleVars, hookPc, quitClosed, timerArmed, timerC, ticks>>

PassCredit(t) ==
    /\ pass[t].pc = "credit"
    /\ \E reply \in RoundReplies, ok \in BOOLEAN :
          Apply(t, StepCredit(sCfg, store, pass[t], reply, ok))
    /\ UNCHANGED <<idleVars, hookPc, quitClosed, timerArmed, timerC, ticks>>

PassStep == \E t \in Threads : PassEnter(t) \/ PassLoad(t) \/ PassMatch(t)

PassWrite == \E t \in Threads : PassOrphans(t) \/ PassCredit(t)

\* timer := time.NewTimer(intv)
StartNewTimer ==
    /\ StartStmt = "newtimer"
    /\ timerArmed' = TRUE
    /\ startPc' = startPc + 1
    /\ UNCHANGED <<idleVars, halt, lastFail, store, pass, workerPc, hookPc, quitClosed,
                   timerC, ticks, order, issued>>

\* u.unlockPendingBlocks() and u.unlockAndCreditMiners() of Start
StartCall ==
    /\ StartStmt \in {"p1", "p2"}
    /\ ~Running("main")
    /\ CallPass("main", IF StartStmt = "p1" THEN P1 ELSE P2)
    /\ UNCHANGED <<idleVars, halt, lastFail, store, startPc, workerPc, hookPc, quitClosed,
                   timerArmed, timerC, ticks, issued>>

\* timer.Reset(intv): the timer runs again; a tick that waits in timer.C stays
\* there or is dropped, as the Go release has it
TimerReset ==
    /\ timerArmed' = TRUE
    /\ timerC' \in {0, timerC}

\* the round of a thread is over: the locals of its passes are gone
EndRound(t) ==
    /\ pass' = [pass EXCEPT ![t] = NoPass]
    /\ order' = [order EXCEPT ![t] = <<>>]

StartReset ==
    /\ StartStmt = "reset"
    /\ TimerReset
    /\ EndRound("main")
    /\ startPc' = startPc + 1
    /\ UNCHANGED <<idleVars, halt, lastFail, store, workerPc, hookPc, quitClosed,
                   ticks, issued>>

\* hook.RegistryHook("unlock.go", ...)
StartHook ==
    /\ StartStmt = "hook"
    /\ hookPc' = "registered"
    /\ startPc' = startPc + 1
    /\ UNCHANGED <<idleVars, halt, lastFail, store, pass, workerPc, quitClosed,
                   timerArmed, timerC, ticks, order, issued>>

\* go func() { for { select ... } }()
StartGo ==
    /\ StartStmt = "go"
    /\ workerPc' = "select"
    /\ startPc' = startPc + 1
    /\ UNCHANGED <<idleVars, halt, lastFail, store, pass, hookPc, quitClosed,
                   timerArmed, timerC, ticks, order, issued>>

\* the timer expires
TimerFire ==
    /\ timerArmed
    /\ timerArmed' = FALSE
    /\ timerC' = 1
    /\ UNCHANGED <<idleVars, halt, lastFail, store, pass, startPc, workerPc, hookPc,
                   quitClosed, ticks, order, issued>>

\* a faulty hook, to test ShutdownLiveness against: "close(quit)" is missing
HookInvokeMut ==
    /\ hookPc = "registered"
    /\ hookPc' = "waiting"
    /\ UNCHANGED <<idleVars, halt, lastFail, store, pass, startPc, workerPc, quitClosed,
                   timerArmed, timerC, ticks, order, issued>>

\* the shutdown signal: the hook closes quit and waits on hooks
HookInvoke ==
    /\ hookPc = "registered"
    /\ quitClosed' = TRUE
    /\ hookPc' = "waiting"
    /\ UNCHANGED <<idleVars, halt, lastFail, store, pass, startPc, workerPc, timerArmed,
                   timerC, ticks, order, issued>>

\* case <-quit of the select
WorkerQuit ==
    /\ workerPc = "select"
    /\ quitClosed
    /\ workerPc' = "ack"
    /\ UNCHANGED <<idleVars, halt, lastFail, store, pass, startPc, hookPc, quitClosed,
                   timerArmed, timerC, ticks, order, issued>>

\* "hooks <- struct{}{}" meets "<-hooks": the hook returns, the goroutine goes on
WorkerAck ==
    /\ workerPc = "ack"
    /\ hookPc = "waiting"
    /\ workerPc' = AfterAck
    /\ hookPc' = "returned"
    /\ UNCHANGED <<idleVars, halt, lastFail, store, pass, startPc, quitClosed,
                   timerArmed, timerC, ticks, order, issued>>

\* case <-timer.C of the select
WorkerTick ==
    /\ workerPc = "select"
    /\ timerC = 1
    /\ ticks < MaxTicks
    /\ timerC' = 0
    /\ ticks' = ticks + 1
    /\ workerPc' = "p1"
    /\ order' = [order EXCEPT !["worker"] = <<>>]
    /\ UNCHANGED <<idleVars, halt, lastFail, store, pass, startPc, hookPc, quitClosed,
                   timerArmed, issued>>

\* u.unlockPendingBlocks() and u.unlockAndCreditMiners() of the tick
WorkerCall ==
    /\ workerPc \in {"p1", "p2"}
    /\ ~Running("worker")
    /\ CallPass("worker", IF workerPc = "p1" THEN P1 ELSE P2)
    /\ UNCHANGED <<idleVars, halt, lastFail, store, startPc, workerPc, hookPc, quitClosed,
                   timerArmed, timerC, ticks, issued>>

\* timer.Reset(intv) of the tick
WorkerReset ==
    /\ workerPc = "reset"
    /\ TimerReset
    /\ EndRound("worker")
    /\ workerPc' = "select"
    /\ UNCHANGED <<idleVars, halt, lastFail, store, startPc, hookPc, quitClosed,
                   ticks, issued>>

Next ==
    \/ StartNewTimer \/ StartCall \/ StartReset \/ StartHook \/ StartGo
    \/ PassStep \/ PassWrite
    \/ TimerFire \/ HookInvoke
    \/ WorkerQuit \/ WorkerAck \/ WorkerTick \/ WorkerCall \/ WorkerReset

Spec == InitSched /\ [][Next]_vars

\* every pass that was called returns
PassesTerminate == \A t \in Threads : Running(t) ~> ~Running(t)

\* what the scheduling grants: the goroutine goes on from one statement to the
\* next; the hook's receive and the goroutine's send meet; and a select that
\* finds quit closed again and again takes it in the end, the choice among the
\* ready cases being random.  Nothing is asked of the timer or of the signal.
Fairness ==
    /\ WF_vars(WorkerCall)
    /\ WF_vars(WorkerReset)
    /\ WF_vars(WorkerAck)
    /\ SF_vars(WorkerQuit)

SpecLive == InitSched /\ [][Next]_vars /\ Fairness /\ PassesTerminate

\* ----------------------------------------------------------------- claims

Occurrences(list, ptr) == Cardinality({k \in 1..Len(list) : list[k].ptr = ptr})

\* what C8 says of one call: the candidates handed in and what it returned
Exclusive(candidates, out) ==
    LET r == out.result IN
    /\ \A k \in 1..Len(candidates) :
          Occurrences(r.maturedBlocks, candidates[k].ptr)
            + Occurrences(r.orphanedBlocks, candidates[k].ptr) = 1
    /\ r.blocks + r.uncles + r.orphans = Len(candidates)
    /\ r.blocks + r.uncles = Len(r.maturedBlocks)
    /\ r.orphans = Len(r.orphanedBlocks)
    /\ \A k \in 1..Len(r.maturedBlocks) : ~r.maturedBlocks[k].Orphan
    /\ \A k \in 1..Len(r.orphanedBlocks) : r.orphanedBlocks[k].Orphan

\* C8: when unlockCandidates returns without error, every candidate handed in is
\* in exactly one of maturedBlocks / orphanedBlocks, once; it is counted in
\* exactly one of blocks, uncles, orphans; and it has Orphan = TRUE exactly when
\* it is in orphanedBlocks.
ExclusiveClassification ==
    /\ (mPhase \in {"once", "twice"} /\ mOut.err = "") => Exclusive(mCands, mOut)
    /\ (mPhase = "twice" /\ mOut2.err = "") => Exclusive(LeftBy(mOut), mOut2)

\* a call that returned an uncle match of a candidate that came in marked
\* orphan, and an orphan
ExclusiveWitness ==
    /\ mPhase = "once"
    /\ mOut.err = ""
    /\ mOut.result.uncles = 1
    /\ mOut.result.orphans = 1
    /\ \E k \in 1..Len(mCands) :
          /\ mCands[k].Orphan
          /\ mOut.scans[k].kind = "uncle"

\* C9: a second run of the matcher on the candidates as the first run left
\* them, with the same node, gives every candidate the classification, the hash,
\* the height and the reward the first run gave it.
MatcherIdempotent ==
    (mPhase = "twice" /\ mOut2.err = "") =>
        \A k \in 1..Len(mOut.scans) :
            /\ mOut2.scans[k].kind = mOut.scans[k].kind
            /\ mOut2.scans[k].c.Hash = mOut.scans[k].c.Hash
            /\ mOut2.scans[k].c.Height = mOut.scans[k].c.Height
            /\ mOut2.scans[k].c.Reward = mOut.scans[k].c.Reward

\* the predicate as C10 words it: an if / else-if chain whose first branch is
\* taken whenever the candidate has a hash
OrderedChain(block, candidate) ==
    IF Len(candidate.Hash) > 0 THEN EqualFold(candidate.Hash, block.Hash)
    ELSE IF Len(block.Nonce) > 0 THEN EqualFold(block.Nonce, candidate.Nonce)
    ELSE IF Len(block.SealFields) = 2 THEN EqualFold(candidate.Nonce, block.SealFields[2])
    ELSE FALSE

\* C10: matchCandidate(B, c) is the hash comparison alone when c has a hash,
\* else the nonce comparison when B has a nonce, else the comparison with the
\* second seal field when B has exactly two, else false.
MatchIsOrderedChain == probe.done => (probe.r = OrderedChain(probe.b, probe.c))

\* the distribution calculateRewards returned, when it returned one
Returned == rw.done /\ rw.out.err = "" /\ ~rw.out.panic /\ ~rw.out.nil

\* C3: the credits of a distribution add up to at most the Shannon of the
\* miners' profit, of the pool profit and of the donation, and to no less than
\* that minus one Shannon per miner; the miners' own credits add up to at most
\* the miners' profit.
ShannonConservation ==
    Returned =>
        LET out == rw.out
            miners == DOMAIN rw.reply.shares
            bound == weiToShannonInt64(out.minersProfit) + weiToShannonInt64(out.poolProfit)
                        + weiToShannonInt64(out.donation)
            split == calculateRewardsForShares(rw.reply.shares, SumMap(rw.reply.shares),
                                               out.minersProfit)[1]
        IN  /\ SumMap(out.rewards) <= bound
            /\ bound - SumMap(out.rewards) <= Cardinality(miners)
            /\ RatLeq(RatInt(SumMap(split) * Shannon), out.minersProfit)

\* ------------------------------------------------- claims on the passes

\* the store writes
WriteOps ==
    {"write_pending_orphans", "write_orphan", "write_immature_block",
     "write_matured_block", "write_immature_error"}

\* the calls the pass of thread t makes in a step
NewCalls(t) ==
    IF Len(pass'[t].calls) >= Len(pass[t].calls) /\ pass'[t].fn = pass[t].fn
    THEN SubSeq(pass'[t].calls, Len(pass[t].calls) + 1, Len(pass'[t].calls))
    ELSE pass'[t].calls

\* C1: once halt is true it stays true, and no step of a pass writes to the
\* store from then on.
StickyHalt ==
    [][halt => /\ halt'
               /\ \A t \in Threads : \A k \in 1..Len(NewCalls(t)) :
                     NewCalls(t)[k].op \notin WriteOps]_vars

\* the tick whose first pass set halt on a failed write is over: its second
\* pass has run and has made no call
StickyHaltWitness ==
    /\ halt
    /\ lastFail = "write_immature_block"
    /\ workerPc = "reset"
    /\ order["worker"] = <<<<P1, "begin">>, <<P1, "end">>, <<P2, "begin">>, <<P2, "end">>>>
    /\ pass["worker"].fn = P2
    /\ pass["worker"].calls = <<>>

\* C2: every candidate WriteMaturedBlock was called for is one an earlier
\* WriteImmatureBlock wrote; one that was only marked or written as an orphan
\* is never written as matured.
PipelineOrder == issued.mat \subseteq issued.imm

\* a second pass has written a block as matured, and another candidate was
\* only marked
PipelineOrderWitness ==
    /\ issued.mat # {}
    /\ \E k \in DOMAIN store : store[k].status = "error" /\ k \notin issued.imm

\* the passes of a round in the order they begin and end
RoundOrder == <<<<P1, "begin">>, <<P1, "end">>, <<P2, "begin">>, <<P2, "end">>>>

\* C4: at most one pass is executing at any time, and in the start-up run and
\* in every tick unlockPendingBlocks has returned before unlockAndCreditMiners
\* begins.
NoOverlappingPasses ==
    /\ Cardinality({t \in Threads : Running(t)}) <= 1
    /\ \A t \in Threads :
          /\ Len(order[t]) <= Len(RoundOrder)
          /\ order[t] = SubSeq(RoundOrder, 1, Len(order[t]))

\* the goroutine is in the second pass of a tick while Start has returned
NoOverlappingWitness ==
    /\ Running("worker")
    /\ pass["worker"].fn = P2
    /\ pass["worker"].pc = "credit"
    /\ Len(order["worker"]) = 3
    /\ startPc > Len(StartSeq)

\* C5: the hook returns only after the goroutine has taken the quit signal;
\* when it has returned no pass is executing, then or later; and the goroutine
\* takes the quit signal only between passes.
ShutdownSafety ==
    /\ hookPc = "returned" => (workerPc = "exited" /\ \A t \in Threads : ~Running(t))
    /\ hookPc = "returned" => quitClosed
    /\ workerPc \in {"ack", "exited"} => (quitClosed /\ ~Running("worker"))

\* the hook has returned after a tick that was due when the signal came
ShutdownWitness ==
    /\ hookPc = "returned"
    /\ workerPc = "exited"
    /\ ticks > 0
    /\ quitClosed

\* C6: a call of a pass that returned an error is the last call of that pass,
\* and halt is set and lastFail is that error.
FailStop ==
    \A t \in Threads : \A j \in 1..Len(pass[t].calls) :
        ~pass[t].calls[j].ok =>
            /\ j = Len(pass[t].calls)
            /\ halt
            /\ lastFail = pass[t].calls[j].op

\* the round of the shares of a candidate came back empty
EmptyShares(call) == call.op = "get_round_shares" /\ call.ok /\ call.a = 0

\* the marker a pass writes for a block: WriteImmatureError(block, 0, 1) in the
\* first pass, WriteImmatureError(block, block.State, 2) in the second
IsMarker(fn, call, key) ==
    /\ call.op = "write_immature_error"
    /\ call.key = key
    /\ IF fn = P1 THEN call.a = 0 /\ call.b = 1
       ELSE call.a = store[key].c.State /\ call.b = 2

\* C7: for a block whose round has no shares a pass writes the marker once and
\* writes no credits; halt stays false, and the pass goes on to the next block.
NoSharesNonFatal ==
    \A t \in Threads :
        LET calls == pass[t].calls IN
        \A j \in 1..Len(calls) :
            EmptyShares(calls[j]) =>
                /\ j < Len(calls)
                /\ IsMarker(pass[t].fn, calls[j + 1], calls[j].key)
                /\ Cardinality({k \in 1..Len(calls) :
                                  /\ calls[k].op = "write_immature_error"
                                  /\ calls[k].key = calls[j].key}) = 1
                /\ \A k \in 1..Len(calls) :
                      calls[k].key = calls[j].key =>
                          calls[k].op \notin {"write_immature_block", "write_matured_block"}
                /\ (j + 1 = Len(calls)) =>
                      /\ ~halt
                      /\ pass[t].pc = "credit" \/ pass[t].ret = "done"

\* a pass marked a block whose round had no shares and went on to the next
\* block, whose credits it wrote
NoSharesWitness ==
    \E t \in Threads :
        LET calls == pass[t].calls IN
        \E j \in 1..Len(calls) :
            /\ EmptyShares(calls[j])
            /\ j + 3 <= Len(calls)
            /\ calls[j + 2].op = "get_round_shares"
            /\ calls[j + 3].op \in {"write_immature_block", "write_matured_block"}
            /\ calls[j + 3].ok
            /\ ~halt

\* ------------------------------------------------ claims on the matcher

\* the runs of unlockCandidates of the matcher model that returned: the
\* candidates handed in and what came back
MatcherRuns ==
    (IF mPhase \in {"once", "twice"} /\ mOut.err = ""
     THEN {[cands |-> mCands, out |-> mOut]} ELSE {})
    \cup (IF mPhase = "twice" /\ mOut2.err = ""
          THEN {[cands |-> LeftBy(mOut), out |-> mOut2]} ELSE {})

\* the height the scan of a candidate ended at
EndHeight(scan) == scan.fetched[Len(scan.fetched)]

\* C11: after a block match of candidate c with block B, c.Height is the
\* number of B, c.Hash is B.Hash, c.Orphan is false and c.UncleHeight is 0.
BlockMatchPostcondition ==
    \A run \in MatcherRuns : \A k \in 1..Len(run.out.scans) :
        LET scan == run.out.scans[k]
            B == GetBlockByHeight(mNode, EndHeight(scan)).b
        IN  scan.kind = "block" =>
                /\ scan.c.Height = ParseHexNumber(B.Number).val
                /\ scan.c.Hash = B.Hash
                /\ ~scan.c.Orphan
                /\ scan.c.UncleHeight = 0

\* ------------------------------------------- claims on the reward arithmetic

\* an amount of wei in whole Shannon, rounded toward zero (amounts are not
\* negative here)
FloorShannon(wei) == wei.n \div (wei.d * Shannon)

\* the credits C12 describes for a distribution: every share of the miners'
\* profit, the donation and the pool profit each truncated to whole Shannon
TruncatedCredits(cfg, shares, out) ==
    LET total == SumMap(shares)
        split == [m \in DOMAIN shares |->
                    FloorShannon(RatMul(out.minersProfit, Rat(shares[m], total)))]
        withDonation == IF cfg.Donate
                        THEN AddTo(split, ToLower(donationAccount), FloorShannon(out.donation))
                        ELSE split
    IN  IF Len(cfg.PoolFeeAddress) # 0
        THEN AddTo(withDonation, ToLower(cfg.PoolFeeAddress), FloorShannon(out.poolProfit))
        ELSE withDonation

\* C12: the credits calculateRewards returns are the wei amounts converted to
\* Shannon by rounding toward zero: the miners' shares, the pool fee and the
\* donation.
TruncatingConversion ==
    Returned => rw.out.rewards = TruncatedCredits(rw.cfg, rw.reply.shares, rw.out)

\* C13: the revenue calculateRewards returns (with the transaction fees kept
\* apart, when there are any) is exactly the miners' profit plus the pool
\* profit plus the donation it returns.
RevenueConservation ==
    Returned =>
        rw.out.revenue = RatAdd(RatAdd(rw.out.minersProfit, rw.out.poolProfit),
                                rw.out.donation)

\* a distribution with a pool fee, kept transaction fees and a donation that
\* is not a whole number of units
RevenueWitness ==
    /\ Returned
    /\ rw.cfg.PoolFee > 0
    /\ rw.cfg.Donate
    /\ rw.block.HasExtra
    /\ rw.block.ExtraReward > 0
    /\ rw.out.donation.d > 1
    /\ rw.out.revenue = RatInt(rw.block.Reward + rw.block.ExtraReward)

\* ------------------------------------- claims on the transaction fees

\* the fees of the transactions of block B that have a receipt
TxFees(node, B) ==
    LET txs == B.Transactions
        fee == [k \in DOMAIN txs |->
                   LET receipt == GetTxReceipt(node, txs[k].Hash) IN
                   IF receipt.st = "ok"
                   THEN String2Big(receipt.GasUsed) * String2Big(txs[k].GasPrice)
                   ELSE 0]
    IN  SumOver(fee, DOMAIN txs)

\* what block B earns without its transactions
PlainReward(cfg, B) ==
    LET height == ParseHexNumber(B.Number).val IN
    GetConstReward(height, cfg.mainNet)
        + GetRewardForUncle(height, cfg.mainNet) * Len(B.Uncles)

\* a pool that takes a fee and donates, and a round with two miners
RoutingCfg(cfg) ==
    [cfg EXCEPT !.PoolFee = 25, !.PoolFeeAddress = <<"0", "x", "F", "E">>, !.Donate = TRUE]

RoutingReply ==
    [err |-> "", shares |-> (<<"0", "x", "a", "1">> :> 1) @@ (<<"0", "x", "a", "2">> :> 2)]

\* the fees are kept apart: in ExtraReward, out of Reward, and in the pool's
\* part only
FeesKept(cfg, c, B, fees) ==
    LET with == calculateRewards(RoutingCfg(cfg), c, RoutingReply)
        plain == calculateRewards(RoutingCfg(cfg),
                                  [c EXCEPT !.HasExtra = FALSE, !.ExtraReward = 0],
                                  RoutingReply)
    IN  /\ c.HasExtra
        /\ c.ExtraReward = fees
        /\ c.Reward = PlainReward(cfg, B)
        /\ with.minersProfit = plain.minersProfit
        /\ \A m \in DOMAIN RoutingReply.shares : with.rewards[m] = plain.rewards[m]
        /\ RatAdd(with.poolProfit, with.donation)
             = RatAdd(RatAdd(plain.poolProfit, plain.donation), RatInt(fees))

\* the fees are part of the reward and the miners share them
FeesShared(cfg, c, B, fees) ==
    LET dist == calculateRewards(RoutingCfg(cfg), c, RoutingReply)
        profit == chargeFee(RatInt(PlainReward(cfg, B) + fees), 25)[1]
        total == SumMap(RoutingReply.shares)
    IN  /\ c.Reward = PlainReward(cfg, B) + fees
        /\ dist.minersProfit = profit
        /\ \A m \in DOMAIN RoutingReply.shares :
              dist.rewards[m]
                = weiToShannonInt64(RatMul(profit, Rat(RoutingReply.shares[m], total)))

\* C14: with KeepTxFees a block match stores the transaction fees in
\* ExtraReward and leaves them out of Reward, and calculateRewards adds them to
\* the pool's part only, every miner being credited as for the block without
\* transactions; without KeepTxFees the fees are part of Reward and the miners
\* share them in proportion to their shares.
TxFeeRouting ==
    \A run \in MatcherRuns : \A k \in 1..Len(run.out.scans) :
        LET scan == run.out.scans[k]
            B == GetBlockByHeight(mNode, EndHeight(scan)).b
        IN  scan.kind = "block" =>
                IF mCfg.KeepTxFees
                THEN FeesKept(mCfg, scan.c, B, TxFees(mNode, B))
                ELSE FeesShared(mCfg, scan.c, B, TxFees(mNode, B))

\* a block match with kept transaction fees, one transaction being without
\* receipt
TxFeeRoutingWitness ==
    /\ mPhase = "once"
    /\ mOut.err = ""
    /\ mCfg.KeepTxFees
    /\ \E k \in 1..Len(mOut.scans) :
          /\ mOut.scans[k].kind = "block"
          /\ mOut.scans[k].c.ExtraReward = 17 * 3

\* ------------------------------------------------ claims on the window

\* every call of the matcher, failed ones included, with the candidates it got
AllMatcherRuns ==
    (IF mPhase \in {"once", "twice"} THEN {[cands |-> mCands, out |-> mOut]} ELSE {})
    \cup (IF mPhase = "twice" THEN {[cands |-> LeftBy(mOut), out |-> mOut2]} ELSE {})

\* the block at height h is there and matches c
BlockMatches(h, c) ==
    LET reply == GetBlockByHeight(mNode, h) IN
    reply.st = "ok" /\ matchCandidate(reply.b, c)

\* the block at height h is there and one of its uncles matches c
UncleMatches(h, c) ==
    LET reply == GetBlockByHeight(mNode, h) IN
    /\ reply.st = "ok"
    /\ \E i \in 0..(Len(reply.b.Uncles) - 1) :
          LET uncle == GetUncleByBlockNumberAndIndex(mNode, h, i) IN
          uncle.st = "ok" /\ matchCandidate(uncle.b, c)

\* the window of c, without the heights below 0
Window(c) == {h \in (c.Height - minDepth)..(c.Height + minDepth - 1) : h >= 0}

Fetched(scan) == {scan.fetched[j] : j \in 1..Len(scan.fetched)}

\* what the scan of candidate c asked of the node, and how it ended
ScanInWindow(c, scan) ==
    LET f == scan.fetched IN
    /\ Fetched(scan) \subseteq Window(c)
    /\ \A j \in 1..Len(f) : f[j] >= 0
    /\ \A j \in 1..(Len(f) - 1) : f[j] < f[j + 1]
    /\ \A j \in 1..(Len(f) - 1) : ~BlockMatches(f[j], c) /\ ~UncleMatches(f[j], c)
    /\ scan.kind \in {"block", "uncle"} =>
          /\ BlockMatches(EndHeight(scan), c) \/ UncleMatches(EndHeight(scan), c)
          /\ scan.kind = "block" <=> BlockMatches(EndHeight(scan), c)
    /\ scan.kind # "err" =>
          /\ scan.c.Orphan <=> scan.kind = "orphan"
          /\ scan.kind = "orphan" <=>
                /\ Fetched(scan) = Window(c)
                /\ \A h \in Window(c) : ~BlockMatches(h, c) /\ ~UncleMatches(h, c)

\* C15: for every candidate c the matcher fetches blocks only at heights of
\* [c.Height - 16, c.Height + 16), in ascending order and never below 0, stops
\* at the first height where the block or one of its uncles matches, the block
\* being tested before the uncles, and marks c as an orphan exactly when the
\* whole window was scanned without a match.
WindowScan ==
    \A run \in AllMatcherRuns : \A k \in 1..Len(run.out.scans) :
        ScanInWindow(run.cands[k], run.out.scans[k])

\* a window cut at height 0 scanned to its end without a match, and a window
\* left at the height of a matching uncle
WindowScanWitness ==
    /\ mPhase = "once"
    /\ Len(mOut.scans) = 2
    /\ mOut.scans[1].kind = "orphan"
    /\ mOut.scans[1].fetched = HeightRange(0, 17)
    /\ mOut.scans[2].kind = "uncle"

\* ------------------------------------------------ claims on the uncles

\* the uncle of the block at height h that the scan of c matched: the first
\* that matches
MatchedUncle(h, c) ==
    LET idx == CHOOSE i \in 0..1 :
                   /\ matchCandidate(GetUncleByBlockNumberAndIndex(mNode, h, i).b, c)
                   /\ \A j \in 0..(i - 1) :
                         ~matchCandidate(GetUncleByBlockNumberAndIndex(mNode, h, j).b, c)
    IN  GetUncleByBlockNumberAndIndex(mNode, h, idx).b

\* C16: a candidate matched as an uncle found in the block at height h has
\* Height = h and UncleHeight <= h after the call, UncleHeight being the
\* uncle's own number.
UncleHeightBound ==
    \A run \in MatcherRuns : \A k \in 1..Len(run.out.scans) :
        LET scan == run.out.scans[k] IN
        scan.kind = "uncle" =>
            /\ scan.c.Height = EndHeight(scan)
            /\ scan.c.UncleHeight <= EndHeight(scan)
            /\ scan.c.UncleHeight
                 = ParseHexNumber(MatchedUncle(EndHeight(scan), run.cands[k]).Number).val

\* a candidate found as an uncle in a block above the height it was recorded at
UncleHeightWitness ==
    /\ mPhase = "once"
    /\ mOut.err = ""
    /\ \E k \in 1..Len(mOut.scans) :
          /\ mOut.scans[k].kind = "uncle"
          /\ mOut.scans[k].c.Height > mCands[k].Height
          /\ mOut.scans[k].c.UncleHeight > 0
          /\ mOut.scans[k].c.UncleHeight < mOut.scans[k].c.Height

InSeq(x, seq) == \E j \in 1..Len(seq) : seq[j] = x

\* C17: a candidate matched as an uncle has Reward >= 0 after the call, 0 when
\* the reward table gives a negative uncle reward, and is returned among the
\* matured blocks as a non-orphan, not among the orphans.
NoNegativeReward ==
    \A run \in MatcherRuns : \A k \in 1..Len(run.out.scans) :
        LET scan == run.out.scans[k]
            table == GetUncleReward(scan.c.UncleHeight, scan.c.Height, mCfg.mainNet)
        IN  scan.kind = "uncle" =>
                /\ scan.c.Reward >= 0
                /\ scan.c.Reward = (IF table < 0 THEN 0 ELSE table)
                /\ ~scan.c.Orphan
                /\ InSeq(scan.c, run.out.result.maturedBlocks)
                /\ \A j \in 1..Len(run.out.result.orphanedBlocks) :
                      run.out.result.orphanedBlocks[j].ptr # scan.c.ptr

\* an uncle included too late to earn anything, returned as matured
NoNegativeWitness ==
    /\ mPhase = "once"
    /\ mOut.err = ""
    /\ \E k \in 1..Len(mOut.scans) :
          LET c == mOut.scans[k].c IN
          /\ mOut.scans[k].kind = "uncle"
          /\ GetUncleReward(c.UncleHeight, c.Height, mCfg.mainNet) < 0
          /\ c.Reward = 0
          /\ InSeq(c, mOut.result.maturedBlocks)

\* ------------------------------------------------ claims on failed matching

\* the errors unlockCandidates returns: a failed or null fetch of a block or
\* of an uncle, a failed handleBlock or handleUncle
MatcherErrors == {"block", "block-null", "uncle", "uncle-null", "parse", "receipt"}

\* C19: a pass whose call of unlockCandidates failed, for whichever candidate
\* of the working set, makes no write to the store at all, has returned with
\* that call as its last, and halt is true.
MatcherFailureWritesNothing ==
    \A t \in Threads :
        LET calls == pass[t].calls IN
        \A j \in 1..Len(calls) :
            calls[j].op \in MatcherErrors =>
                /\ \A k \in 1..Len(calls) : calls[k].op \notin WriteOps
                /\ j = Len(calls)
                /\ pass[t].ret = "abort"
                /\ halt
                /\ \A k \in DOMAIN store : store[k].status = "candidate" =>
                      store[k].c = NewCandidate(k, 20, IF k = 1 THEN "a" ELSE "b")

\* the matcher failed on the receipts of the last candidate after the first
\* candidate had matched a block, and nothing was written
MatcherFailureWitness ==
    /\ sNode.feats = {[h |-> 20, who |-> "a", kind |-> "geth"]}
    /\ pass["main"].fn = P1
    /\ pass["main"].ret = "abort"
    /\ Len(pass["main"].calls) = 2
    /\ pass["main"].calls[2].op = "receipt"
    /\ \A k \in DOMAIN store : store[k].status = "candidate"

\* ------------------------------------------------ claims on the head

\* the largest height the store may return to a pass that read the pending
\* height H
LoadBound(fn, cfg, H) == IF fn = P1 THEN H - cfg.ImmatureDepth ELSE H - cfg.Depth

\* C20: the unlocker runs with Depth >= 32 and ImmatureDepth >= 16 only; the
\* working set of a pass that read the pending height H holds candidates of
\* height <= H - ImmatureDepth in the first pass and <= H - Depth in the
\* second, and every height the matcher fetches in the pass is below H.
FetchesBelowHead ==
    /\ sCfg.Depth >= 32
    /\ sCfg.ImmatureDepth >= 16
    /\ \A t \in Threads :
          /\ \A k \in 1..Len(pass[t].cands) :
                pass[t].cands[k].Height <= LoadBound(pass[t].fn, sCfg, pass[t].H)
          /\ \A h \in pass[t].fetched : h < pass[t].H

\* a first pass with the smallest ImmatureDepth whose matcher went up to the
\* height just below the pending one
FetchesBelowHeadWitness ==
    \E t \in Threads :
        /\ pass[t].fn = P1
        /\ sCfg.ImmatureDepth = minDepth
        /\ pass[t].H - 1 \in pass[t].fetched

\* ------------------------------------------------ claims on the shutdown

\* Start has returned and the hook was invoked
SignalSent == startPc > Len(StartSeq) /\ hookPc = "waiting"

\* C18: once the hook was invoked after Start has returned, the goroutine
\* eventually acknowledges, the hook returns and the loop of the goroutine is
\* left, whether the signal came while the goroutine was idle, in a tick, or
\* while the unlocker was halted.
ShutdownLiveness == SignalSent ~> (hookPc = "returned" /\ workerPc = "exited")

\* the hook has returned although the signal came during a tick of a halted
\* unlocker
ShutdownLivenessWitness ==
    /\ hookPc = "returned"
    /\ workerPc = "exited"
    /\ halt
    /\ ticks = MaxTicks
    /\ startPc > Len(StartSeq)

\* ------------------------------------------------ claims on the percents

RECURSIVE RatSumOver(_, _)
\* the sum of the fractions of map m over the keys of set ks
RatSumOver(m, ks) ==
    IF ks = {} THEN RatInt(0)
    ELSE LET k == CHOOSE x \in ks : TRUE IN RatAdd(m[k], RatSumOver(m, ks \ {k}))

\* the distribution gives every miner of the share map its part of the total,
\* and the parts make up the whole
SplitIsTotal(shares, out) ==
    /\ ~out.panic
    /\ ~out.nil
    /\ DOMAIN out.percents = DOMAIN shares
    /\ \A m \in DOMAIN shares :
          out.percents[m].n * SumMap(shares) = shares[m] * out.percents[m].d
    /\ RatSumOver(out.percents, DOMAIN shares) = RatInt(1)

\* C21: for every share map that is not empty, one whose counts are all zero
\* included, calculateRewards completes with percents[miner] = n / total for
\* each miner, the percents summing to 1; only the empty map yields the
\* distribution that stands for no rewards.
PercentSplitTotal ==
    (rw.done /\ rw.reply.err = "") =>
        IF DOMAIN rw.reply.shares = {} THEN rw.out.nil /\ ~rw.out.panic
        ELSE SplitIsTotal(rw.reply.shares, rw.out)

=============================================================================
